---- MODULE Spec2Model ----
(***************************************************************************)
(* State-machine model of the user management service:                    *)
(*   - the user directory (table "users") with its column constraints,    *)
(*   - the Redis session store (refresh_token:<t> and blacklist:<t> keys), *)
(*   - the HTTP handlers of /auth and /user and the services they call.   *)
(*                                                                         *)
(* The specifications share the variables:                                 *)
(*   Spec        signup, login and bearer resolution, one request at a     *)
(*               time;                                                     *)
(*   SpecDir     the directory and the authorization policy (signup,       *)
(*               updates, GET /user/{id});                                 *)
(*   SpecList    GET /users;                                               *)
(*   SpecReset   POST /auth/reset-password and the message broker;         *)
(*   SpecRefresh login and token refresh, each Redis round trip of a       *)
(*               refresh being one step, so that requests interleave;      *)
(*   SpecSession one refresh, with updates and deletion of its principal   *)
(*               between its steps;                                        *)
(*   SpecJwt     the token manager on issued and forged tokens.            *)
(*                                                                         *)
(* Handlers behind the bearer dependency are modelled for every            *)
(* current_user that get_current_active_user can yield (an existing        *)
(* principal whose is_blocked is false); the dependency itself is          *)
(* exercised by GetMe.  Image upload (S3) is outside the model.            *)
(***************************************************************************)
EXTENDS Integers, FiniteSets, Sequences, TLC

\* ---------------------------------------------------------------- bounds
MaxUsers   == 3       \* principals ever created (seeds included)
MaxTokens  == 2       \* refresh tokens ever generated
MaxTicks   == 2       \* clock advances
TickMinutes == 900    \* minutes per clock advance
MaxUpdates == 1       \* update operations per behaviour
NumReqs    == 2       \* refresh requests per behaviour
MaxLogins  == 1       \* logins per behaviour of SpecRefresh
MaxResets  == 2       \* reset messages ever queued
MaxFaults  == 2       \* broker faults during one publish

\* ------------------------------------------------------ program constants
JWT_EXPIRE_MINUTES == 1800
JWT_EXPIRE_DAYS    == 7
BLACKLIST_TTL      == 3600

\* ------------------------------------------------------------ value sets
None == "None"

Roles == {"USER", "MODERATOR", "ADMIN"}

Usernames == {"alice", "bob", "carol"}
Emails    == {"a@x.com", "b@x.com", "c@x.com"}
Phones    == {"+48111111111", "+48222222222", "+48333333333"}
Passwords == {<<"12345678">>, <<"87654321">>}
Groups    == {"g1"}            \* the ids of the rows of table "groups"
NoGroups  == {"0", "g9"}       \* ids of no row; "0" is the integer zero

\* ------------------------------------------------------ Credential hasher
\* A bcrypt hash is written <<"bcrypt">> \o x: it is never equal to its
\* input, and it verifies exactly the string x it was computed from.
get_hash(password) == <<"bcrypt">> \o password

verify_password(plain_password, hashed_password) ==
    hashed_password = <<"bcrypt">> \o plain_password

\* ---------------------------------------------------------------- state
VARIABLES
    users,      \* table "users": id -> row
    plain,      \* ghost: id -> the plaintext password the principal chose
    nextId,     \* ids handed out so far (uuid4 is modelled as fresh)
    redis,      \* key -> [value, ttl]
    nextTok,    \* refresh tokens generated so far (token_hex is fresh)
    issued,     \* the TokenResponse bodies returned so far, each with its
                \* principal (uid) and the operation that returned it (via)
    now,        \* clock, in minutes
    ticks,      \* clock advances so far
    nupd,       \* update operations so far
    last,       \* the last request and its response
    reqs,       \* the refresh requests in flight: request -> its locals
    mq          \* the queue "reset-password-stream" of the message broker

vars == <<users, plain, nextId, redis, nextTok, issued, now, ticks, nupd, last,
          reqs, mq>>

Ids == DOMAIN users

\* ------------------------------------------------------------- directory
get_user_by_id(user_id)         == {u \in Ids : u = user_id}
get_user_by_email(email)        == {u \in Ids : users[u].email = email}
get_user_by_username(username)  == {u \in Ids : users[u].username = username}
get_user_by_phone(phone_number) == {u \in Ids : users[u].phone_number = phone_number}

get_user_by_email_or_username(email, username) ==
    {u \in Ids : users[u].email = email \/ users[u].username = username}

\* check_if_user_exists raises UserAlreadyExistsError iff this is TRUE
check_if_user_exists(email, username, phone_number) ==
    \E u \in Ids : \/ users[u].email = email
                   \/ users[u].username = username
                   \/ users[u].phone_number = phone_number

\* check_group_exists: `group` is the Result object of db.execute, which is
\* never falsy, so the function never raises and always returns None.
check_group_exists(group_id) == None

\* `if user_data.group_id:` - None and the integer zero are falsy
Truthy(group_id) == group_id \notin {None, "0"}

\* the foreign key users.group_id -> groups.id, checked by the INSERT
ForeignKeyViolation(group_id) == group_id # None /\ group_id \notin Groups

\* The row that User(**user_data.model_dump(exclude={"password"}),
\* password=hashed) inserts: a None role takes the column default.
NewUser(d, hashed_password) ==
    [name         |-> d.name,
     surname      |-> d.surname,
     username     |-> d.username,
     email        |-> d.email,
     phone_number |-> d.phone_number,
     password     |-> hashed_password,
     role         |-> IF d.role = None THEN "USER" ELSE d.role,
     is_blocked   |-> FALSE,
     group_id     |-> d.group_id]

\* ------------------------------------------------------------- requests
SignupRequests ==
    [name : {"n0"}, surname : {"s0"}, username : Usernames, email : Emails,
     phone_number : Phones, password : Passwords,
     role : {None, "ADMIN"}, group_id : {None} \cup Groups \cup NoGroups]

\* ghost: the fields of a signup payload that equal those of an existing
\* principal
Collisions(d) ==
    {f \in {"email", "username", "phone_number"} :
        \E u \in Ids : users[u][f] = d[f]}

\* ---------------------------------------------------------- POST /auth/signup
\* routes/auth.py signup, with UserService.create_user (whose own call of
\* check_group_exists never raises); an INSERT the database refuses reaches
\* the client as a 500
Signup(d) ==
    /\ nextId < MaxUsers
    /\ LET existing_user == get_user_by_email_or_username(d.email, d.username)
           hashed_password == get_hash(d.password)
           user_in == [d EXCEPT !.password = hashed_password]
           id == nextId + 1
           res == IF existing_user # {} THEN "400 already exists"
                  ELSE IF Truthy(d.group_id) /\ check_group_exists(d.group_id) = None
                       THEN "400 group not found"
                  ELSE IF check_if_user_exists(user_in.email, user_in.username,
                                               user_in.phone_number)
                       THEN "409 UserAlreadyExistsError"
                  ELSE IF ForeignKeyViolation(user_in.group_id)
                       THEN "500 IntegrityError"
                  ELSE "201"
       IN /\ IF res = "201"
             THEN /\ users' = [u \in Ids \cup {id} |->
                                 IF u = id
                                 THEN NewUser(user_in, get_hash(user_in.password))
                                 ELSE users[u]]
                  /\ plain' = [u \in Ids \cup {id} |->
                                 IF u = id THEN d.password ELSE plain[u]]
                  /\ nextId' = id
             ELSE UNCHANGED <<users, plain, nextId>>
          /\ last' = [op |-> "signup", req |-> d, result |-> res,
                      collide |-> Collisions(d),
                      created |-> IF res = "201" THEN {id} ELSE {}]
    /\ UNCHANGED <<redis, nextTok, issued, now, ticks, nupd, reqs, mq>>

\* ------------------------------------------------------------ Token issuer
\* JWTManager._create_jwt_token: the signed claims are the payload plus exp.
\* A token is written as its claims; it is signed with the server key.  The
\* first definition leaves out the claims whose value is None.
_create_jwt_token_compact(data, expires_delta) ==
    [k \in {f \in DOMAIN data : data[f] # None} \cup {"exp"} |->
        IF k = "exp" THEN now + expires_delta ELSE data[k]]

_create_jwt_token(data, expires_delta) ==
    [k \in DOMAIN data \cup {"exp"} |->
        IF k = "exp" THEN now + expires_delta ELSE data[k]]

\* jwt.decode: ExpiredSignatureError when exp <= now
TokenExpired(token) == token.exp <= now

payload_get(payload, k) == IF k \in DOMAIN payload THEN payload[k] ELSE None

\* ------------------------------------------------- JWT encoding (PyJWT)
JWT_SECRET_KEY == "JWT_SECRET_KEY"
JWT_ALGORITHM  == "HS256"

\* the HMAC of the signing input under a key and an algorithm
Signature(key, algorithm, payload) == <<algorithm, key, payload>>

\* jwt.encode: header, payload and signature
jwt_encode(payload, key, algorithm) ==
    [parsable  |-> TRUE,
     alg       |-> algorithm,
     payload   |-> payload,
     signature |-> Signature(key, algorithm, payload)]

\* a string that is not three base64url segments of JSON
UnparsableToken ==
    [parsable  |-> FALSE,
     alg       |-> "",
     payload   |-> [k \in {} |-> 0],
     signature |-> <<>>]

\* jwt.decode(jwt, key, algorithms): the exception it raises, or "ok".  The
\* token is parsed, then the algorithm of its header is looked up in
\* `algorithms`, then the signature is verified, then exp is validated.
jwt_decode(token, key, algorithms) ==
    IF ~token.parsable THEN "DecodeError"
    ELSE IF token.alg \notin algorithms THEN "InvalidAlgorithmError"
    ELSE IF token.signature # Signature(key, token.alg, token.payload)
    THEN "InvalidSignatureError"
    ELSE IF "exp" \in DOMAIN token.payload /\ token.payload.exp <= now
    THEN "ExpiredSignatureError"
    ELSE "ok"

\* the exception classes of PyJWT, each with its base classes
Bases(exc) ==
    CASE exc = "ExpiredSignatureError" -> {"ExpiredSignatureError", "InvalidTokenError"}
      [] exc = "DecodeError"           -> {"DecodeError", "InvalidTokenError"}
      [] exc = "InvalidSignatureError" -> {"InvalidSignatureError", "DecodeError",
                                           "InvalidTokenError"}
      [] exc = "InvalidAlgorithmError" -> {"InvalidAlgorithmError", "InvalidTokenError"}
      [] OTHER                         -> {}

\* JWTManager.get_payload: the claims, or the HTTPException (all of them
\* 401) of the first except clause that matches
get_payload(token) ==
    LET exc == jwt_decode(token, JWT_SECRET_KEY, {JWT_ALGORITHM})
    IN IF exc = "ok"
       THEN [status |-> 200, detail |-> "", payload |-> token.payload]
       ELSE [status  |-> 401,
             detail  |-> IF "ExpiredSignatureError" \in Bases(exc)
                         THEN "Token has expired"
                         ELSE IF "DecodeError" \in Bases(exc)
                         THEN "Failed to decode token"
                         ELSE "Invalid token",
             payload |-> [k \in {} |-> 0]]

\* JWTManager.get_tokens: the access token in its encoded form
get_tokens(payload) ==
    jwt_encode(_create_jwt_token(payload, JWT_EXPIRE_MINUTES),
               JWT_SECRET_KEY, JWT_ALGORITHM)

\* ---------------------------------------------------------------- Redis
RefreshKey(t)   == <<"refresh_token", t>>
BlacklistKey(t) == <<"blacklist", t>>

redis_exists(key) == key \in DOMAIN redis
redis_get(key)    == IF key \in DOMAIN redis THEN redis[key].value ELSE 0
redis_setex(r, key, ttl, value) ==
    [k \in DOMAIN r \cup {key} |->
        IF k = key THEN [value |-> value, ttl |-> ttl] ELSE r[k]]
redis_delete(r, key) == [k \in DOMAIN r \ {key} |-> r[k]]

\* ------------------------------------------------------------ Auth service
\* AuthService._create_user_tokens: the pair minted for `user` and the key
\* written to Redis; an exception of setex becomes a 500.  The claims of the
\* access token are read from the user object; the first definition reuses
\* the claims of a pair the principal already holds, the third returns the
\* pair whether or not setex succeeded.
AccessClaims_stale(u) ==
    IF \E p \in issued : p.uid = u
    THEN [(CHOOSE p \in issued : p.uid = u).access_token
             EXCEPT !.exp = now + JWT_EXPIRE_MINUTES]
    ELSE _create_jwt_token([sub      |-> users[u].username,
                            role     |-> users[u].role,
                            group_id |-> users[u].group_id],
                           JWT_EXPIRE_MINUTES)

AccessClaims(u) ==
    _create_jwt_token([sub      |-> users[u].username,
                       role     |-> users[u].role,
                       group_id |-> users[u].group_id],
                      JWT_EXPIRE_MINUTES)

_create_user_tokens_uncommitted(u, redis_in, redis_ok, op, ghost) ==
    LET refresh_token == nextTok + 1
        pair == [access_token  |-> AccessClaims(u),
                 refresh_token |-> refresh_token,
                 uid           |-> u,
                 via           |-> op]
    IN /\ nextTok' = refresh_token
       /\ redis' = IF redis_ok
                   THEN redis_setex(redis_in, RefreshKey(refresh_token),
                                    JWT_EXPIRE_DAYS * 86400, u)
                   ELSE redis_in
       /\ issued' = issued \cup {pair}
       /\ last' = [op |-> op, result |-> "200", tokens |-> {pair}] @@ ghost

_create_user_tokens(u, redis_in, redis_ok, op, ghost) ==
    LET refresh_token == nextTok + 1
        pair == [access_token  |-> AccessClaims(u),
                 refresh_token |-> refresh_token,
                 uid           |-> u,
                 via           |-> op]
    IN /\ nextTok' = refresh_token
       /\ IF redis_ok
          THEN /\ redis' = redis_setex(redis_in, RefreshKey(refresh_token),
                                       JWT_EXPIRE_DAYS * 86400, u)
               /\ issued' = issued \cup {pair}
               /\ last' = [op |-> op, result |-> "200", tokens |-> {pair}] @@ ghost
          ELSE /\ redis' = redis_in
               /\ UNCHANGED issued
               /\ last' = [op |-> op, result |-> "500 Authentication service error",
                           tokens |-> {}] @@ ghost

Logins == Usernames \cup Emails \cup Phones \cup {"nobody"}

\* ghost: the principals one of whose identifiers is the login string
Principals(login) ==
    {u \in Ids : login \in {users[u].email, users[u].username,
                            users[u].phone_number}}

\* the blocked check of authenticate_user (`if user.is_blocked`); the first
\* definition is the check left out
user_is_blocked_unchecked(user) == FALSE

user_is_blocked(user) == users[user].is_blocked

\* ----------------------------------------------------------- POST /auth/login
\* AuthService.authenticate_user
authenticate_user(login, password, redis_ok) ==
    /\ nextTok < MaxTokens
    /\ LET found == {u \in Ids : users[u].email = login \/ users[u].username = login}
           ghost == [login |-> login, password |-> password,
                     principals |-> Principals(login), redis_ok |-> redis_ok,
                     redis_before |-> redis, issued_before |-> issued]
       IN \/ /\ found = {}
             /\ last' = [op |-> "login", tokens |-> {},
                         result |-> "401 Incorrect login or password"] @@ ghost
             /\ UNCHANGED <<redis, nextTok, issued>>
          \/ \E user \in found :
               IF ~verify_password(password, users[user].password)
               THEN /\ last' = [op |-> "login", tokens |-> {},
                                result |-> "401 Incorrect login or password"] @@ ghost
                    /\ UNCHANGED <<redis, nextTok, issued>>
               ELSE IF user_is_blocked(user)
               THEN /\ last' = [op |-> "login", tokens |-> {},
                                result |-> "403 User is blocked"] @@ ghost
                    /\ UNCHANGED <<redis, nextTok, issued>>
               ELSE _create_user_tokens(user, redis, redis_ok, "login", ghost)
    /\ UNCHANGED <<users, plain, nextId, now, ticks, nupd, reqs, mq>>

\* ------------------------------------------------------ bearer dependencies
\* get_current_user: the claims "sub" and "id" must both be there, then the
\* principal is looked up by the username in "sub" (result, and the row
\* found); the first definition asks for "sub" only
get_current_user_by_sub(payload) ==
    LET username == payload_get(payload, "sub")
    IN IF username = None
       THEN [result |-> "401 Invalid token data", user |-> {}]
       ELSE IF get_user_by_username(username) = {}
       THEN [result |-> "401 User not found", user |-> {}]
       ELSE [result |-> "200", user |-> get_user_by_username(username)]

get_current_user(payload) ==
    LET username == payload_get(payload, "sub")
        user_id  == payload_get(payload, "id")
    IN IF username = None \/ user_id = None
       THEN [result |-> "401 Invalid token data", user |-> {}]
       ELSE IF get_user_by_username(username) = {}
       THEN [result |-> "401 User not found", user |-> {}]
       ELSE [result |-> "200", user |-> get_user_by_username(username)]

\* JWTBearer.__call__ (an expired token is refused), get_current_user and
\* get_current_active_user (`if current_user.is_blocked`)
get_current_active_user(payload) ==
    IF TokenExpired(payload)
    THEN [result |-> "401 Could not validate credentials", user |-> {}]
    ELSE LET current_user == get_current_user(payload)
         IN IF current_user.result # "200" THEN current_user
            ELSE IF \E u \in current_user.user : users[u].is_blocked
            THEN [result |-> "403 User is blocked", user |-> {}]
            ELSE current_user

\* ghost: the stored record, at the time of a request, of the principal a
\* pair was issued to (empty once the principal is deleted)
Principal(pair) == {users[u] : u \in {pair.uid} \cap Ids}

\* --------------------------------------------------------------- GET /user/me
\* get_current_user_info behind the bearer dependencies, for a bearer token
\* the service issued
GetMe(pair) ==
    /\ LET auth == get_current_active_user(pair.access_token)
       IN last' = [op |-> "getme", token |-> pair, result |-> auth.result,
                   user |-> auth.user, principal |-> Principal(pair)]
    /\ UNCHANGED <<users, plain, nextId, redis, nextTok, issued, now, ticks, nupd, reqs, mq>>

Tick ==
    /\ ticks < MaxTicks
    /\ ticks' = ticks + 1
    /\ now' = now + TickMinutes
    /\ last' = [op |-> "tick"]
    /\ UNCHANGED <<users, plain, nextId, redis, nextTok, issued, nupd, reqs, mq>>

\* ------------------------------------------------------ bearer dependency
\* what get_current_active_user can hand to a handler as current_user
ActiveUsers == {u \in Ids : ~users[u].is_blocked}

\* ----------------------------------------------------------- GET /user/{id}
\* UserService.check_user_access_permissions: the exception it raises, or
\* "200" when it returns
check_user_access_permissions(current_user, target_user) ==
    IF target_user = {} THEN "404 UserNotFoundError"
    ELSE IF users[current_user].role = "USER"
    THEN "403 NotEnoughPermissionsError"
    ELSE IF /\ users[current_user].role = "MODERATOR"
            /\ \E t \in target_user :
                  users[current_user].group_id # users[t].group_id
    THEN "403 NotEnoughPermissionsError"
    ELSE "200"

\* routes/user.py get_user
GetUser(current_user, user_id) ==
    /\ current_user \in ActiveUsers
    /\ LET user == get_user_by_id(user_id)
       IN last' = [op |-> "get_user", actor |-> current_user,
                   target |-> user_id,
                   result |-> check_user_access_permissions(current_user, user)]
    /\ UNCHANGED <<users, plain, nextId, redis, nextTok, issued, now, ticks,
                   nupd, reqs, mq>>

\* ------------------------------------------------------------ update_user
\* A UserUpdateSchema instance is the function from the fields that were set
\* to their values; a value is <<v>>, or <<>> for None.
UpdateFields == {"name", "surname", "username", "email", "phone_number",
                 "role", "is_blocked"}

\* columns of "users" declared NOT NULL, and those declared unique
NotNullColumns == {"name", "surname", "username", "email", "role", "is_blocked"}
UniqueColumns  == {"username", "email"}

\* UserUpdateSchema.as_form: every field is passed to cls(...), so every
\* field is set, the ones the form left out to None
as_form(form) ==
    [f \in UpdateFields |-> IF f \in DOMAIN form THEN form[f] ELSE <<>>]

\* model_dump(exclude_unset=True) and the setattr loop
SetAttrs(row, update_data) ==
    [f \in DOMAIN row |->
        IF f \in DOMAIN update_data
        THEN IF update_data[f] = <<>> THEN None ELSE update_data[f][1]
        ELSE row[f]]

\* db.commit(): the UPDATE is refused (IntegrityError) when it nulls a
\* NOT NULL column or repeats a unique column of another row
IntegrityError(user_id, update_data) ==
    \/ \E f \in DOMAIN update_data \cap NotNullColumns : update_data[f] = <<>>
    \/ \E f \in DOMAIN update_data \cap UniqueColumns :
         \E u \in Ids \ {user_id} : <<users[u][f]>> = update_data[f]

\* UserService.update_user; an exception leaves the table as it was and
\* reaches the client as a 500
update_user(op, current_user, user_id, update_data) ==
    LET res == IF get_user_by_id(user_id) = {} THEN "500 AttributeError"
               ELSE IF IntegrityError(user_id, update_data)
               THEN "500 IntegrityError"
               ELSE "200"
    IN /\ users' = IF res = "200"
                   THEN [users EXCEPT ![user_id] = SetAttrs(@, update_data)]
                   ELSE users
       /\ last' = [op |-> op, actor |-> current_user, target |-> user_id,
                   update |-> update_data, result |-> res, before |-> users]

\* UserService.check_admin_access_permissions: TRUE iff it raises
\* NotEnoughPermissionsError; the first definition lets a MODERATOR pass
check_admin_access_permissions_staff(current_user) ==
    users[current_user].role \notin {"ADMIN", "MODERATOR"}

check_admin_access_permissions(current_user) ==
    users[current_user].role # "ADMIN"

\* routes/user.py update_user (PATCH /user/{id}, JSON body)
UpdateUser(current_user, user_id, user_update) ==
    /\ current_user \in ActiveUsers
    /\ nupd < MaxUpdates
    /\ nupd' = nupd + 1
    /\ IF check_admin_access_permissions(current_user)
       THEN /\ last' = [op |-> "update_user", actor |-> current_user,
                        target |-> user_id, update |-> user_update,
                        result |-> "403 NotEnoughPermissionsError",
                        before |-> users]
            /\ UNCHANGED users
       ELSE update_user("update_user", current_user, user_id, user_update)
    /\ UNCHANGED <<plain, nextId, redis, nextTok, issued, now, ticks, reqs, mq>>

\* routes/user.py update_current_user (PATCH /user/me, form body)
UpdateCurrentUser(current_user, form) ==
    /\ current_user \in ActiveUsers
    /\ nupd < MaxUpdates
    /\ nupd' = nupd + 1
    /\ update_user("update_me", current_user, current_user, as_form(form))
    /\ UNCHANGED <<plain, nextId, redis, nextTok, issued, now, ticks, reqs, mq>>

\* ------------------------------------------------------------ DELETE /user/me
\* routes/user.py delete_current_user with UserService.delete_user; the
\* session store is not touched
DeleteCurrentUser(current_user) ==
    /\ current_user \in ActiveUsers
    /\ users' = [u \in Ids \ {current_user} |-> users[u]]
    /\ last' = [op |-> "delete_me", actor |-> current_user, result |-> "204"]
    /\ UNCHANGED <<plain, nextId, redis, nextTok, issued, now, ticks, nupd,
                   reqs, mq>>

\* ----------------------------------------------------------------- GET /users
\* The strings of the directory in the collation order of the database.
Collation == <<"a@x.com", "b@x.com", "c@x.com", "n0", "n1", "s0", "s1">>

Collate(v) == CHOOSE i \in 1 .. Len(Collation) : Collation[i] = v

\* lower(v) LIKE '%' || lower(f) || '%' on the names the model uses: the
\* lower-cased substrings of each name
Lower(f) ==
    CASE f = "N1" -> "n1"
      [] f = "S"  -> "s"
      [] OTHER    -> f

Substrings(v) ==
    CASE v = "n0"  -> {"n", "0", "n0"}
      [] v = "n1"  -> {"n", "1", "n1"}
      [] v = "s0"  -> {"s", "0", "s0"}
      [] v = "s1"  -> {"s", "1", "s1"}
      [] OTHER     -> {v}

ilike(v, f) == Lower(f) \in Substrings(v)

\* created_at is the insertion time: ids are handed out in insertion order.
\* The primary key is a uuid4, unrelated to that order.
created_at(u) == u
uuid(u)       == 0 - u

\* the values the route accepts for sort_by (a Literal; None when absent)
SortLiterals == {"id", "name", "surname", "email", "created_at"}

\* hasattr(User, sort_by), for the names the model uses
hasattr_User(sort_by) == sort_by \in SortLiterals

\* the value of the ORDER BY column for a row: the named attribute, or
\* created_at when sort_by is None or names no attribute of User
order_column(u, sort_by) ==
    IF sort_by # None /\ hasattr_User(sort_by)
    THEN CASE sort_by = "id"         -> uuid(u)
           [] sort_by = "name"       -> Collate(users[u].name)
           [] sort_by = "surname"    -> Collate(users[u].surname)
           [] sort_by = "email"      -> Collate(users[u].email)
           [] sort_by = "created_at" -> created_at(u)
    ELSE created_at(u)

\* the orders in which the database may return the rows S for an ORDER BY:
\* rows with equal keys come in any order
OrderBy(S, sort_by, order_by) ==
    {s \in [1 .. Cardinality(S) -> S] :
        /\ \A i, j \in DOMAIN s : i # j => s[i] # s[j]
        /\ \A i, j \in DOMAIN s :
              i < j => IF order_by = "asc"
                       THEN order_column(s[i], sort_by) <= order_column(s[j], sort_by)
                       ELSE order_column(s[i], sort_by) >= order_column(s[j], sort_by)}

\* the WHERE part of UserService.get_all_users; the first definition leaves
\* out the MODERATOR clause
get_all_users_where_unscoped(current_user, filter_by_name) ==
    {u \in Ids :
        filter_by_name # None =>
            \/ ilike(users[u].name, filter_by_name)
            \/ ilike(users[u].surname, filter_by_name)}

get_all_users_where(current_user, filter_by_name) ==
    {u \in Ids :
        /\ users[current_user].role = "MODERATOR" =>
              /\ users[u].group_id # None
              /\ users[u].group_id = users[current_user].group_id
        /\ filter_by_name # None =>
              \/ ilike(users[u].name, filter_by_name)
              \/ ilike(users[u].surname, filter_by_name)}

\* OFFSET (page - 1) * limit LIMIT limit
Paginate(rows, page, limit) ==
    LET first == (page - 1) * limit + 1
        lst   == IF page * limit < Len(rows) THEN page * limit ELSE Len(rows)
    IN SubSeq(rows, first, lst)

\* routes/users.py get_users_list with UserService.get_all_users; a query
\* parameter outside its declared type is refused (422) before the handler
\* body runs
ListUsers(current_user, page, limit, filter_by_name, sort_by, order_by) ==
    /\ current_user \in ActiveUsers
    /\ LET q == [page |-> page, limit |-> limit,
                 filter_by_name |-> filter_by_name, sort_by |-> sort_by,
                 order_by |-> order_by]
       IN IF sort_by \notin {None} \cup SortLiterals
          THEN last' = [op |-> "list_users", actor |-> current_user,
                        query |-> q, result |-> "422 Unprocessable Entity",
                        rows |-> <<>>]
          ELSE IF users[current_user].role \notin {"ADMIN", "MODERATOR"}
          THEN last' = [op |-> "list_users", actor |-> current_user,
                        query |-> q, result |-> "403 NotEnoughPermissionsError",
                        rows |-> <<>>]
          ELSE \E rows \in OrderBy(get_all_users_where(current_user,
                                                        filter_by_name),
                                    sort_by, order_by) :
                 last' = [op |-> "list_users", actor |-> current_user,
                          query |-> q, result |-> "200",
                          rows |-> Paginate(rows, page, limit)]
    /\ UNCHANGED <<users, plain, nextId, redis, nextTok, issued, now, ticks,
                   nupd, reqs, mq>>

\* GET /users with a bearer token the service issued and the default query
\* (page 1, limit 30, ascending by creation time): the bearer dependencies,
\* then the handler
BearerListUsers(pair) ==
    /\ LET auth == get_current_active_user(pair.access_token)
           head == [op |-> "bearer_list", token |-> pair, user |-> auth.user,
                    principal |-> Principal(pair)]
       IN IF auth.result # "200"
          THEN last' = head @@ [result |-> auth.result, rows |-> <<>>]
          ELSE \E current_user \in auth.user :
                 IF users[current_user].role \notin {"ADMIN", "MODERATOR"}
                 THEN last' = head @@ [result |-> "403 NotEnoughPermissionsError",
                                       rows |-> <<>>]
                 ELSE \E rows \in OrderBy(get_all_users_where(current_user, None),
                                          None, "asc") :
                        last' = head @@ [result |-> "200",
                                         rows |-> Paginate(rows, 1, 30)]
    /\ UNCHANGED <<users, plain, nextId, redis, nextTok, issued, now, ticks,
                   nupd, reqs, mq>>

\* ------------------------------------------------ POST /auth/refresh-token
\* AuthService.process_token_refresh.  Every await on Redis or on the
\* database is one step of the request; other requests run in between.
Reqs == 1 .. NumReqs

InvalidTokenError == "InvalidTokenError"

IdleReq == [pc |-> "idle"]

\* the refresh tokens for which some refresh has returned a new pair
Refreshed == {reqs[r].refresh_token : r \in {q \in Reqs : reqs[q].pc = "done"
                                                        /\ reqs[q].result = "200"}}

FinishReq(r, result, detail, tokens) ==
    reqs' = [reqs EXCEPT ![r] =
               [@ EXCEPT !.pc = "done"] @@
               [result |-> result, detail |-> detail, tokens |-> tokens]]

\* ghost: the principal a refresh token was issued to
TokenOwner(t) == {p.uid : p \in {q \in issued : q.refresh_token = t}}

\* ghost: the refresh tokens whose rotation stopped between its two writes
Stopped == {reqs[r].refresh_token : r \in {q \in Reqs : reqs[q].pc = "crashed"}}

\* is_blacklisted = await redis.exists("blacklist:<t>"); the request also
\* notes (ghost) whether the token was presented after a successful refresh
\* of it, whether its principal had been deleted by then, and whether a
\* rotation of it had stopped half way by then
RefreshCheckBlacklist(r, refresh_token) ==
    /\ reqs[r].pc = "idle"
    /\ LET rq == [pc |-> "get", refresh_token |-> refresh_token,
                  after |-> refresh_token \in Refreshed,
                  orphan |-> /\ TokenOwner(refresh_token) # {}
                             /\ TokenOwner(refresh_token) \cap Ids = {},
                  stopped |-> refresh_token \in Stopped]
       IN IF redis_exists(BlacklistKey(refresh_token))
          THEN reqs' = [reqs EXCEPT ![r] =
                          [rq EXCEPT !.pc = "done"] @@
                          [result |-> InvalidTokenError,
                           detail |-> "Invalid or expired token",
                           tokens |-> {}]]
          ELSE reqs' = [reqs EXCEPT ![r] = rq]
    /\ UNCHANGED <<users, plain, nextId, redis, nextTok, issued, now, ticks,
                   nupd, last, mq>>

\* user_id = await redis.get("refresh_token:<t>")
RefreshLookup(r) ==
    /\ reqs[r].pc = "get"
    /\ LET user_id == redis_get(RefreshKey(reqs[r].refresh_token))
       IN IF user_id = 0
          THEN FinishReq(r, InvalidTokenError, "Invalid token", {})
          ELSE reqs' = [reqs EXCEPT ![r] =
                          [@ EXCEPT !.pc = "delete"] @@ [user_id |-> user_id]]
    /\ UNCHANGED <<users, plain, nextId, redis, nextTok, issued, now, ticks,
                   nupd, last, mq>>

\* await redis.delete("refresh_token:<t>"); the first definition leaves the
\* key in place
RefreshDelete_kept(r) ==
    /\ reqs[r].pc = "delete"
    /\ reqs' = [reqs EXCEPT ![r].pc = "setex"]
    /\ UNCHANGED <<users, plain, nextId, redis, nextTok, issued, now, ticks,
                   nupd, last, mq>>

RefreshDelete(r) ==
    /\ reqs[r].pc = "delete"
    /\ redis' = redis_delete(redis, RefreshKey(reqs[r].refresh_token))
    /\ reqs' = [reqs EXCEPT ![r].pc = "setex"]
    /\ UNCHANGED <<users, plain, nextId, nextTok, issued, now, ticks, nupd,
                   last, mq>>

\* await redis.setex("blacklist:<t>", 3600, "blacklisted")
RefreshBlacklist(r) ==
    /\ reqs[r].pc = "setex"
    /\ redis' = redis_setex(redis, BlacklistKey(reqs[r].refresh_token),
                            BLACKLIST_TTL, "blacklisted")
    /\ reqs' = [reqs EXCEPT ![r].pc = "user"]
    /\ UNCHANGED <<users, plain, nextId, nextTok, issued, now, ticks, nupd,
                   last, mq>>

\* user = await self.get_user_by_id(user_id), then _create_user_tokens(user)
\* up to its await on redis.setex; the first definition reports a missing
\* principal as an invalid token
RefreshGetUser_collapsed(r) ==
    /\ reqs[r].pc = "user"
    /\ IF get_user_by_id(reqs[r].user_id) = {}
       THEN FinishReq(r, InvalidTokenError, "Invalid token", {})
       ELSE reqs' = [reqs EXCEPT ![r] =
                       [@ EXCEPT !.pc = "mint"] @@
                       [access_token |-> AccessClaims(reqs[r].user_id),
                        fetched      |-> users[reqs[r].user_id]]]
    /\ UNCHANGED <<users, plain, nextId, redis, nextTok, issued, now, ticks,
                   nupd, last, mq>>

RefreshGetUser(r) ==
    /\ reqs[r].pc = "user"
    /\ IF get_user_by_id(reqs[r].user_id) = {}
       THEN FinishReq(r, "UserNotFoundError", "User not found", {})
       ELSE reqs' = [reqs EXCEPT ![r] =
                       [@ EXCEPT !.pc = "mint"] @@
                       [access_token |-> AccessClaims(reqs[r].user_id),
                        fetched      |-> users[reqs[r].user_id]]]
    /\ UNCHANGED <<users, plain, nextId, redis, nextTok, issued, now, ticks,
                   nupd, last, mq>>

\* await redis.setex("refresh_token:<new>", ...) and the response
RefreshRegister(r, redis_ok) ==
    /\ reqs[r].pc = "mint"
    /\ LET refresh_token == nextTok + 1
           pair == [access_token  |-> reqs[r].access_token,
                    refresh_token |-> refresh_token,
                    uid           |-> reqs[r].user_id,
                    via           |-> "refresh"]
       IN /\ nextTok' = refresh_token
          /\ IF redis_ok
             THEN /\ redis' = redis_setex(redis, RefreshKey(refresh_token),
                                          JWT_EXPIRE_DAYS * 86400,
                                          reqs[r].user_id)
                  /\ issued' = issued \cup {pair}
                  /\ FinishReq(r, "200", "", {pair})
             ELSE /\ UNCHANGED <<redis, issued>>
                  /\ FinishReq(r, "500", "Authentication service error", {})
    /\ UNCHANGED <<users, plain, nextId, now, ticks, nupd, last, mq>>

\* the worker that serves request r stops (process killed, connection
\* lost) between the two writes of process_token_refresh, after the delete
\* and before the setex of the blacklist marker; the delete is not undone
\* and nothing is answered
RefreshCrash(r) ==
    /\ reqs[r].pc = "setex"
    /\ reqs' = [reqs EXCEPT ![r].pc = "crashed"]
    /\ UNCHANGED <<users, plain, nextId, redis, nextTok, issued, now, ticks,
                   nupd, last, mq>>

\* the next Redis call of process_token_refresh (exists, get, delete, or the
\* setex of the blacklist marker) raises: none of them is inside a try, so
\* the exception leaves the service and the request ends without tokens
\* (ghost `at`: the call that raised).  The first definition takes the
\* failed call for an empty answer and carries on.
RefreshRedisError_open(r, refresh_token) ==
    /\ reqs[r].pc \in {"idle", "get", "delete", "setex"}
    /\ LET rq == IF reqs[r].pc = "idle"
                 THEN [pc |-> "idle", refresh_token |-> refresh_token,
                       after |-> refresh_token \in Refreshed,
                       orphan |-> /\ TokenOwner(refresh_token) # {}
                                  /\ TokenOwner(refresh_token) \cap Ids = {},
                       stopped |-> refresh_token \in Stopped]
                 ELSE reqs[r]
           to == CASE reqs[r].pc = "idle"   -> "get"
                   [] reqs[r].pc = "get"    -> "done"
                   [] reqs[r].pc = "delete" -> "setex"
                   [] reqs[r].pc = "setex"  -> "user"
       IN /\ reqs[r].pc # "idle" => refresh_token = reqs[r].refresh_token
          /\ reqs' = [reqs EXCEPT ![r] =
                        IF to = "done"
                        THEN [rq EXCEPT !.pc = "done"] @@
                             [result |-> InvalidTokenError,
                              detail |-> "Invalid token",
                              tokens |-> {}, at |-> reqs[r].pc]
                        ELSE [rq EXCEPT !.pc = to] @@ [at |-> reqs[r].pc]]
    /\ UNCHANGED <<users, plain, nextId, redis, nextTok, issued, now, ticks,
                   nupd, last, mq>>

RefreshRedisError(r, refresh_token) ==
    /\ reqs[r].pc \in {"idle", "get", "delete", "setex"}
    /\ LET rq == IF reqs[r].pc = "idle"
                 THEN [pc |-> "idle", refresh_token |-> refresh_token,
                       after |-> refresh_token \in Refreshed,
                       orphan |-> /\ TokenOwner(refresh_token) # {}
                                  /\ TokenOwner(refresh_token) \cap Ids = {},
                       stopped |-> refresh_token \in Stopped]
                 ELSE reqs[r]
       IN /\ reqs[r].pc # "idle" => refresh_token = reqs[r].refresh_token
          /\ reqs' = [reqs EXCEPT ![r] =
                        [rq EXCEPT !.pc = "done"] @@
                        [result |-> "RedisError",
                         detail |-> "Internal Server Error",
                         tokens |-> {}, at |-> reqs[r].pc]]
    /\ UNCHANGED <<users, plain, nextId, redis, nextTok, issued, now, ticks,
                   nupd, last, mq>>

\* a key of Redis reaches the end of its TTL
ExpireKey(key) ==
    /\ key \in DOMAIN redis
    /\ redis' = redis_delete(redis, key)
    /\ UNCHANGED <<users, plain, nextId, nextTok, issued, now, ticks, nupd,
                   last, reqs, mq>>

\* ------------------------------------------------ POST /auth/reset-password
\* What the broker does to the attempts of one publish_message call, in
\* order: basic_publish raises a plain exception ("Exception"); it raises
\* AMQPConnectionError and connect() then succeeds ("Reconnect") or raises
\* ("ConnectFailed").  After the last fault basic_publish succeeds.
Faults == {"Exception", "Reconnect", "ConnectFailed"}

FaultScripts == UNION {[1 .. n -> Faults] : n \in 0 .. MaxFaults}

\* RabbitMQPublisher.publish_message: TRUE when the message was handed to
\* the broker, FALSE when the call raised
RECURSIVE publish_message(_)
publish_message(faults) ==
    IF faults = <<>> THEN TRUE
    ELSE IF Head(faults) = "Reconnect" THEN publish_message(Tail(faults))
    ELSE FALSE

\* create_rabbitmq_message; the reset token is a fresh uuid4
create_rabbitmq_message(user) ==
    [email       |-> users[user].email,
     subject     |-> "Password Reset Request",
     user_id     |-> user,
     reset_token |-> Len(mq) + 1]

GenericResetResponse ==
    [status |-> 200,
     body   |-> "If your email is registered, you will receive a password reset link"]

\* the response of reset_password and the messages it queues, for an email
\* and a behaviour of the broker; the first definition drops a message the
\* broker refused and answers as if it had been sent
reset_password_swallowed(email, faults) ==
    LET user == get_user_by_email(email)
    IN IF user = {}
       THEN [response |-> GenericResetResponse, published |-> <<>>]
       ELSE LET message == create_rabbitmq_message(CHOOSE u \in user : TRUE)
            IN IF publish_message(faults)
               THEN [response |-> GenericResetResponse,
                     published |-> <<message>>]
               ELSE [response |-> GenericResetResponse, published |-> <<>>]

reset_password(email, faults) ==
    LET user == get_user_by_email(email)
    IN IF user = {}
       THEN [response |-> GenericResetResponse, published |-> <<>>]
       ELSE LET message == create_rabbitmq_message(CHOOSE u \in user : TRUE)
            IN IF publish_message(faults)
               THEN [response |-> GenericResetResponse,
                     published |-> <<message>>]
               ELSE [response |->
                        [status |-> 500,
                         body   |-> "Failed to process password reset request"],
                     published |-> <<>>]

ResetPassword(email, faults) ==
    /\ Len(mq) < MaxResets
    /\ LET r == reset_password(email, faults)
       IN /\ mq' = mq \o r.published
          /\ last' = [op |-> "reset_password", email |-> email,
                      faults |-> faults, response |-> r.response,
                      found |-> get_user_by_email(email),
                      mq_before |-> mq]
    /\ UNCHANGED <<users, plain, nextId, redis, nextTok, issued, now, ticks,
                   nupd, reqs>>

\* ----------------------------------------------------------------- Init
\* The directory holds two principals that were inserted with a correctly
\* hashed password (as the fixtures of tests/conftest.py do): an ADMIN, and
\* a second principal of any lower role, group and blocked flag.
SeedIds == {1, 2}

SeedUsers(role2, group2, blocked2) ==
    (1 :> [name |-> "n0", surname |-> "s0", username |-> "bob",
           email |-> "b@x.com", phone_number |-> "+48222222222",
           password |-> get_hash(<<"12345678">>), role |-> "ADMIN",
           is_blocked |-> FALSE, group_id |-> None])
    @@
    (2 :> [name |-> "n0", surname |-> "s0", username |-> "carol",
           email |-> "c@x.com", phone_number |-> "+48333333333",
           password |-> get_hash(<<"87654321">>), role |-> role2,
           is_blocked |-> blocked2, group_id |-> group2])

SeedStates(roles2, groups2) ==
    /\ \E role2 \in roles2, group2 \in groups2, blocked2 \in BOOLEAN :
         users = SeedUsers(role2, group2, blocked2)
    /\ plain = (1 :> <<"12345678">>) @@ (2 :> <<"87654321">>)
    /\ nextId = 2
    /\ redis = <<>>
    /\ nextTok = 0
    /\ issued = {}
    /\ now = 0
    /\ ticks = 0
    /\ nupd = 0
    /\ last = [op |-> "init"]
    /\ reqs = [r \in Reqs |-> IdleReq]
    /\ mq = <<>>

\* ------------------------------------------------- Spec: signup and login
\* The signup payloads of this specification name one new principal.
AuthSignupRequests ==
    {d \in SignupRequests : /\ d.username = "alice" /\ d.email = "a@x.com"
                            /\ d.phone_number = "+48111111111"
                            /\ d.role = None /\ d.group_id = None}

Init == SeedStates({"USER", "MODERATOR"}, Groups)

Next ==
    \/ \E d \in AuthSignupRequests : Signup(d)
    \/ \E login \in Logins, password \in Passwords, redis_ok \in BOOLEAN :
         authenticate_user(login, password, redis_ok)
    \/ \E pair \in issued : GetMe(pair)
    \/ Tick

Spec == Init /\ [][Next]_vars

\* ------------------------------------- SpecDir: directory and authorization
\* signup payloads: a new principal, or one that repeats exactly one
\* identifier of the seed principal bob
DirSignupRequests ==
    {d \in SignupRequests :
        /\ <<d.username, d.email, d.phone_number>> \in
              {<<"alice", "a@x.com", "+48111111111">>,
               <<"bob",   "a@x.com", "+48111111111">>,
               <<"alice", "b@x.com", "+48111111111">>,
               <<"alice", "a@x.com", "+48222222222">>}
        /\ d.password = <<"12345678">>
        /\ d.group_id \in {None} \cup Groups}

\* signup payloads that name a group that does not exist
GroupSignupRequests ==
    {d \in SignupRequests :
        /\ <<d.username, d.email, d.phone_number>> \in
              {<<"alice", "a@x.com", "+48111111111">>,
               <<"alice", "a@x.com", "+48222222222">>,
               <<"bob",   "a@x.com", "+48111111111">>}
        /\ d.password = <<"12345678">>
        /\ d.role = None
        /\ d.group_id \in NoGroups}

\* JSON bodies of PATCH /user/{id}: one field each
JsonUpdates ==
    {("name" :> <<"n1">>), ("surname" :> <<"s1">>),
     ("username" :> <<"alice">>), ("username" :> <<"carol">>),
     ("email" :> <<"c@x.com">>),
     ("phone_number" :> <<"+48333333333">>), ("phone_number" :> <<>>),
     ("role" :> <<"USER">>),
     ("is_blocked" :> <<TRUE>>), ("is_blocked" :> <<FALSE>>)}

\* form bodies of PATCH /user/me: the fields the client filled in
FormValue(k) ==
    CASE k = "name"         -> <<"n1">>
      [] k = "surname"      -> <<"s1">>
      [] k = "username"     -> <<"alice">>
      [] k = "email"        -> <<"a@x.com">>
      [] k = "phone_number" -> <<"+48333333333">>
      [] k = "role"         -> <<"ADMIN">>
      [] k = "is_blocked"   -> <<TRUE>>

FormUpdates ==
    {[k \in D |-> FormValue(k)] :
        D \in {D \in SUBSET UpdateFields :
                 {"name", "surname", "username", "email"} \subseteq D}}

InitDir == SeedStates({"USER", "MODERATOR"}, {None} \cup Groups)

NextDir ==
    \/ \E d \in DirSignupRequests \cup GroupSignupRequests : Signup(d)
    \/ \E a \in Ids, t \in 1 .. MaxUsers : GetUser(a, t)
    \/ \E a \in Ids, t \in 1 .. MaxUsers, p \in JsonUpdates : UpdateUser(a, t, p)
    \/ \E a \in Ids, f \in FormUpdates : UpdateCurrentUser(a, f)

SpecDir == InitDir /\ [][NextDir]_vars

\* ----------------------------------------------- SpecList: listing users
\* query parameters of GET /users
Pages       == {1, 2}
Limits      == {1, 30}
NameFilters == {None, "N1"}
SortBys     == {None, "id", "name", "nickname"}
OrderBys    == {"asc", "desc"}

\* the updates that bear on a listing: a name and a role
ListJsonUpdates == {p \in JsonUpdates : DOMAIN p \subseteq {"name", "role"}}

InitList == SeedStates({"USER", "MODERATOR"}, {None} \cup Groups)

NextList ==
    \/ \E d \in AuthSignupRequests : Signup(d)
    \/ \E a \in Ids, t \in SeedIds, p \in ListJsonUpdates : UpdateUser(a, t, p)
    \/ \E a \in Ids, page \in Pages, limit \in Limits, f \in NameFilters,
          sort_by \in SortBys, order_by \in OrderBys :
         ListUsers(a, page, limit, f, sort_by, order_by)

SpecList == InitList /\ [][NextList]_vars

\* --------------------------------------------- SpecReset: password reset
ResetEmails == Emails \cup {"nobody@x.com"}

NextReset ==
    \/ \E d \in AuthSignupRequests : Signup(d)
    \/ \E email \in ResetEmails, faults \in FaultScripts :
         ResetPassword(email, faults)

SpecReset == Init /\ [][NextReset]_vars

\* ------------------------------------------- SpecRefresh: login and refresh
InitRefresh == SeedStates({"USER"}, Groups)

NextRefresh ==
    \/ \E u \in SeedIds :
         /\ Cardinality({l \in issued : l.via = "login"}) < MaxLogins
         /\ authenticate_user(users[u].username, plain[u], TRUE)
    \/ \E r \in Reqs, t \in 1 .. nextTok : RefreshCheckBlacklist(r, t)
    \/ \E r \in Reqs : RefreshLookup(r)
    \/ \E r \in Reqs : RefreshDelete(r)
    \/ \E r \in Reqs : RefreshBlacklist(r)
    \/ \E r \in Reqs : RefreshGetUser(r)
    \/ \E r \in Reqs, redis_ok \in BOOLEAN : RefreshRegister(r, redis_ok)
    \/ \E key \in DOMAIN redis : ExpireKey(key)

SpecRefresh == InitRefresh /\ [][NextRefresh]_vars

\* ----------------------- SpecFault: refresh with crashes and store failures
\* The requests of SpecRefresh within the lifetime of the keys; in addition a
\* login may find Redis down, a worker may stop between two steps and any
\* Redis call may raise.
NextFault ==
    \/ \E u \in SeedIds, redis_ok \in BOOLEAN :
         /\ Cardinality({l \in issued : l.via = "login"}) < MaxLogins
         /\ authenticate_user(users[u].username, plain[u], redis_ok)
    \/ \E r \in Reqs, t \in 1 .. nextTok : RefreshCheckBlacklist(r, t)
    \/ \E r \in Reqs : RefreshLookup(r)
    \/ \E r \in Reqs : RefreshDelete(r)
    \/ \E r \in Reqs : RefreshBlacklist(r)
    \/ \E r \in Reqs : RefreshGetUser(r)
    \/ \E r \in Reqs, redis_ok \in BOOLEAN : RefreshRegister(r, redis_ok)
    \/ \E r \in Reqs : RefreshCrash(r)
    \/ \E r \in Reqs, t \in 1 .. nextTok : RefreshRedisError(r, t)

SpecFault == InitRefresh /\ [][NextFault]_vars

\* ------------------------- SpecSession: a session and changes to its owner
\* One refresh request, with logins, role and blocked-flag updates and
\* account deletion in between its steps.
SessionJsonUpdates ==
    {p \in JsonUpdates : DOMAIN p \subseteq {"role", "is_blocked"}}

NextSession ==
    \/ \E u \in SeedIds \cap Ids :
         /\ Cardinality({l \in issued : l.via = "login"}) < MaxLogins
         /\ authenticate_user(users[u].username, plain[u], TRUE)
    \/ \E a \in Ids, t \in SeedIds, p \in SessionJsonUpdates : UpdateUser(a, t, p)
    \/ \E a \in Ids : DeleteCurrentUser(a)
    \/ \E t \in 1 .. nextTok : RefreshCheckBlacklist(1, t)
    \/ RefreshLookup(1)
    \/ RefreshDelete(1)
    \/ RefreshBlacklist(1)
    \/ RefreshGetUser(1)
    \/ \E redis_ok \in BOOLEAN : RefreshRegister(1, redis_ok)

SpecSession == Init /\ [][NextSession]_vars

\* ------------------------------- SpecBearer: bearer requests over time
\* Logins of the seed principals, bearer requests with the pairs they got,
\* and in between them account deletion, a signup that takes the username
\* carol, and updates of username, role and blocked flag.
BearerSignupRequests ==
    {d \in SignupRequests : /\ d.username = "carol" /\ d.email = "a@x.com"
                            /\ d.phone_number = "+48111111111"
                            /\ d.password = <<"12345678">>
                            /\ d.role = None /\ d.group_id = None}

BearerJsonUpdates ==
    {p \in JsonUpdates : DOMAIN p \subseteq {"username", "role", "is_blocked"}}

InitBearer == SeedStates({"USER", "MODERATOR"}, {None})

NextBearer ==
    \/ \E u \in SeedIds \cap Ids :
         authenticate_user(users[u].username, plain[u], TRUE)
    \/ \E pair \in issued : GetMe(pair)
    \/ \E pair \in issued : BearerListUsers(pair)
    \/ \E a \in Ids : DeleteCurrentUser(a)
    \/ \E d \in BearerSignupRequests : Signup(d)
    \/ \E a \in Ids, t \in SeedIds, p \in BearerJsonUpdates : UpdateUser(a, t, p)

SpecBearer == InitBearer /\ [][NextBearer]_vars

\* ------------------------------------------------ SpecJwt: the token manager
\* claim sets handed to get_tokens
ClaimSets ==
    [sub : {"carol"}, role : {"USER"}, group_id : {None, "g1"}]
    \cup [sub : {"bob"}, username : {"testuser"}]

\* JWTManager.get_tokens, called at time `now` (ghost: claims, at)
JwtGetTokens(payload) ==
    /\ nextTok < MaxTokens
    /\ nextTok' = nextTok + 1
    /\ LET pair == [access_token  |-> get_tokens(payload),
                    refresh_token |-> nextTok + 1,
                    via           |-> "get_tokens",
                    claims        |-> payload,
                    at            |-> now]
       IN /\ issued' = issued \cup {pair}
          /\ last' = [op |-> "get_tokens", tokens |-> {pair}]
    /\ UNCHANGED <<users, plain, nextId, redis, now, ticks, nupd, reqs, mq>>

\* the tokens a client may present: an issued one, its claims signed with
\* another key or with another algorithm, and a string that is no JWT
PresentedTokens ==
    {p.access_token : p \in issued}
    \cup {jwt_encode(p.access_token.payload, "wrong_secret_key", JWT_ALGORITHM) :
             p \in issued}
    \cup {jwt_encode(p.access_token.payload, JWT_SECRET_KEY, "HS512") :
             p \in issued}
    \cup {UnparsableToken}

\* ghost: what is wrong with a presented token
Causes(token) ==
    IF ~token.parsable THEN {"malformed"}
    ELSE {c \in {"algorithm"} : token.alg # JWT_ALGORITHM}
         \cup {c \in {"key"} :
                  token.signature # Signature(JWT_SECRET_KEY, token.alg,
                                              token.payload)
                  /\ token.alg = JWT_ALGORITHM}
         \cup {c \in {"expired"} : now > token.payload.exp}

\* JWTManager.get_payload on a presented token
JwtDecode(token) ==
    /\ last' = [op |-> "decode", token |-> token, causes |-> Causes(token),
                result |-> get_payload(token), at |-> now]
    /\ UNCHANGED <<users, plain, nextId, redis, nextTok, issued, now, ticks,
                   nupd, reqs, mq>>

NextJwt ==
    \/ \E payload \in ClaimSets : JwtGetTokens(payload)
    \/ \E token \in PresentedTokens : JwtDecode(token)
    \/ Tick

SpecJwt == Init /\ [][NextJwt]_vars

\* ================================================================ claims
InvalidCredentials == "401 Incorrect login or password"
PrincipalBlocked   == "403 User is blocked"
PrincipalNotFound  == "404 User not found"

\* C1: a refresh token is single-use and its lifecycle is monotonic: a refresh
\* that presents token t after some refresh of t has returned a new pair
\* never gets past the forward lookup and ends with InvalidToken and no
\* token pair, whether the blacklist marker of t is still there or has
\* expired; the forward mapping of t never exists again.
C1_RefreshTokenSingleUse ==
    /\ \A r \in Reqs :
          (reqs[r].pc # "idle" /\ reqs[r].after) =>
              /\ reqs[r].pc \in {"get", "done"}
              /\ reqs[r].pc = "done" =>
                    (reqs[r].result = InvalidTokenError /\ reqs[r].tokens = {})
    /\ \A t \in Refreshed : ~redis_exists(RefreshKey(t))

\* a refresh presented after a successful refresh of the same token, and
\* after the blacklist marker expired, was rejected by the forward lookup
C1_Witness ==
    \E r \in Reqs :
        /\ reqs[r].pc = "done"
        /\ reqs[r].after
        /\ reqs[r].result = InvalidTokenError
        /\ reqs[r].detail = "Invalid token"
        /\ reqs[r].refresh_token \in Refreshed

\* C2: of the concurrent refresh requests that present the same refresh
\* token, at most one consumes the forward mapping and obtains a new pair.
C2_ConcurrentRefreshSingleUse ==
    \A t \in 1 .. nextTok :
        Cardinality({r \in Reqs : /\ reqs[r].pc = "done"
                                  /\ reqs[r].refresh_token = t
                                  /\ reqs[r].result = "200"}) <= 1

\* C3: a principal created by signup with plaintext password p can log in
\* with its username or email and p (both tokens are returned), and a login
\* with any other password fails with InvalidCredentials.
C3_SignupThenLoginRoundTrips ==
    (last.op = "login" /\ last.redis_ok) =>
        \A u \in Ids \ SeedIds :
            (last.login \in {users[u].username, users[u].email}
             /\ ~users[u].is_blocked) =>
                /\ (last.password = plain[u]) =>
                       (last.result = "200" /\ last.tokens # {})
                /\ (last.password # plain[u]) =>
                       (last.result = InvalidCredentials)

\* C4: an unexpired access token returned by login, presented to
\* GET /user/me while its principal exists and is not blocked, is accepted
\* and resolves to that principal.
C4_IssuedAccessTokenAccepted ==
    (/\ last.op = "getme"
     /\ ~TokenExpired(last.token.access_token)
     /\ last.token.uid \in Ids
     /\ ~users[last.token.uid].is_blocked)
    => (last.result = "200" /\ last.user = {last.token.uid})

\* C5: a login that names a blocked principal never succeeds: no token pair
\* is returned and the session store is left as it was; when the password
\* verifies against the principal's stored hash the outcome is
\* PrincipalBlocked.
C5_BlockedCannotAuthenticate ==
    last.op = "login" =>
        \A u \in last.principals :
            users[u].is_blocked =>
                /\ last.result # "200"
                /\ last.tokens = {}
                /\ issued = last.issued_before
                /\ redis = last.redis_before
                /\ (/\ last.login \in {users[u].email, users[u].username}
                    /\ verify_password(last.password, users[u].password))
                   => last.result = PrincipalBlocked

C5_Witness ==
    /\ last.op = "login"
    /\ last.result = PrincipalBlocked
    /\ \E u \in last.principals :
         /\ users[u].is_blocked
         /\ verify_password(last.password, users[u].password)
         /\ last.password = plain[u]

\* C6: a login that matches no principal fails with PrincipalNotFound (404),
\* an outcome distinct from InvalidCredentials.
C6_UnknownLoginIsNotFound ==
    (last.op = "login" /\ last.principals = {}) =>
        (last.result = PrincipalNotFound /\ last.result # InvalidCredentials)

\* C7: with the correct password, login succeeds and returns a token pair
\* whether the login string is the principal's email, username or phone
\* number.
C7_LoginByAnyIdentifier ==
    (last.op = "login" /\ last.redis_ok) =>
        \A u \in last.principals :
            (/\ ~users[u].is_blocked
             /\ verify_password(last.password, users[u].password))
            => (last.result = "200" /\ last.tokens # {})

\* C8: a signup one of whose email, username or phone number equals that of
\* an existing principal fails with PrincipalAlreadyExists (409) and
\* creates no principal; a signup whose three fields are all new succeeds
\* and creates exactly one principal (signups that name no group).
C8_SignupCollisionIsConflict ==
    (last.op = "signup" /\ last.req.group_id = None) =>
        /\ last.collide # {} =>
              (last.result = "409 UserAlreadyExistsError" /\ last.created = {})
        /\ last.collide = {} =>
              (last.result = "201" /\ Cardinality(last.created) = 1)

\* C9: no two principals share a username, an email or a phone number.
C9_IdentifiersUnique ==
    \A u, v \in Ids :
        u # v => /\ users[u].username # users[v].username
                 /\ users[u].email # users[v].email
                 /\ users[u].phone_number = None
                    \/ users[u].phone_number # users[v].phone_number

\* the decision the policy prescribes for an actor and an existing target
canViewUser(actor, target) ==
    CASE users[actor].role = "ADMIN"     -> TRUE
      [] users[actor].role = "MODERATOR" ->
             users[actor].group_id = users[target].group_id
      [] users[actor].role = "USER"      -> actor = target
      [] OTHER                           -> FALSE

\* C10: GET /user/{id} answers 200 exactly when canViewUser(actor, target)
\* holds, and NotAuthorized (403) otherwise.
C10_GetUserDecisionIsCanViewUser ==
    (last.op = "get_user" /\ last.target \in Ids) =>
        IF canViewUser(last.actor, last.target)
        THEN last.result = "200"
        ELSE last.result = "403 NotEnoughPermissionsError"

\* C11: PATCH /user/{id} modifies the directory only when the actor's role is
\* ADMIN; for a MODERATOR or USER actor it answers NotAuthorized (403) and
\* every record, the target's included, is left as it was.
C11_UpdateUserAdminOnly ==
    last.op = "update_user" =>
        /\ last.before[last.actor].role # "ADMIN" =>
              /\ last.result = "403 NotEnoughPermissionsError"
              /\ users = last.before
        /\ users # last.before => last.before[last.actor].role = "ADMIN"

\* a MODERATOR asked to change an existing principal and was refused
C11_Witness ==
    /\ last.op = "update_user"
    /\ last.before[last.actor].role = "MODERATOR"
    /\ last.target \in Ids
    /\ last.result = "403 NotEnoughPermissionsError"
    /\ users = last.before

\* C12: PATCH /user/me never changes the role or the blocked flag of the
\* principal that calls it, whatever the payload.
C12_SelfUpdateNoEscalation ==
    last.op = "update_me" =>
        /\ users[last.actor].role = last.before[last.actor].role
        /\ users[last.actor].is_blocked = last.before[last.actor].is_blocked

\* C13: GET /users (with well-formed query parameters) answers
\* NotAuthorized to a USER actor; every principal
\* returned to a MODERATOR has the moderator's group; an ADMIN's listing
\* ranges over all principals: unfiltered and on one page it returns each
\* principal exactly once, and filtered it returns only principals.
C13_ListingScopedByRole ==
    (last.op = "list_users" /\ last.query.sort_by \in {None} \cup SortLiterals) =>
        LET role == users[last.actor].role
            returned == {last.rows[i] : i \in DOMAIN last.rows}
        IN /\ role = "USER" =>
                 (last.result = "403 NotEnoughPermissionsError" /\ returned = {})
           /\ role \in {"ADMIN", "MODERATOR"} => last.result = "200"
           /\ role = "MODERATOR" =>
                 \A u \in returned :
                     users[u].group_id = users[last.actor].group_id
           /\ role = "ADMIN" =>
                 /\ returned \subseteq Ids
                 /\ (/\ last.query.filter_by_name = None
                     /\ last.query.page = 1
                     /\ last.query.limit >= Cardinality(Ids))
                    => (returned = Ids /\ Len(last.rows) = Cardinality(Ids))

\* a MODERATOR of group g1 listed the directory and got herself but not the
\* principals outside her group
C13_Witness ==
    /\ last.op = "list_users"
    /\ users[last.actor].role = "MODERATOR"
    /\ users[last.actor].group_id \in Groups
    /\ last.result = "200"
    /\ last.rows = <<last.actor>>
    /\ \E u \in Ids : users[u].group_id # users[last.actor].group_id

\* C14: reset-password does not reveal whether the email is registered: the
\* status code and body a request got are the ones a request for any other
\* email, registered or not, gets under the same behaviour of the broker.
C14_ResetPasswordNonInterference ==
    last.op = "reset_password" =>
        \A email \in ResetEmails :
            reset_password(email, last.faults).response = last.response

\* C15: for a registered email reset-password queues a reset message, and a
\* failed publish is never swallowed: when the publish fails the caller gets
\* a 500 and nothing is queued, so the generic success response for a
\* registered email implies that its message is on the queue.
C15_ResetDispatchFailureIsFatal ==
    (last.op = "reset_password" /\ last.found # {}) =>
        /\ ~publish_message(last.faults) =>
              (last.response.status = 500 /\ mq = last.mq_before)
        /\ last.response = GenericResetResponse =>
              /\ Len(mq) = Len(last.mq_before) + 1
              /\ SubSeq(mq, 1, Len(last.mq_before)) = last.mq_before
              /\ mq[Len(mq)].email = last.email
              /\ mq[Len(mq)].user_id \in last.found
        /\ last.response.status \in {200, 500}

\* the broker refused the message for a registered email (after a
\* reconnection) and the caller got the 500
C15_Witness ==
    /\ last.op = "reset_password"
    /\ last.found # {}
    /\ last.faults = <<"Reconnect", "Exception">>
    /\ last.response.status = 500
    /\ mq = last.mq_before

\* C16: the access token returned by a successful refresh carries the
\* username, role and group of the principal as stored when the refresh
\* read it, whatever the claims of the tokens issued to it before.
C16_RefreshClaimsAreCurrent ==
    \A r \in Reqs :
        (reqs[r].pc = "done" /\ reqs[r].result = "200") =>
            \A pair \in reqs[r].tokens :
                /\ pair.access_token.role = reqs[r].fetched.role
                /\ pair.access_token.group_id = reqs[r].fetched.group_id
                /\ pair.access_token.sub = reqs[r].fetched.username

\* a principal logged in as MODERATOR, was made USER, and the refresh of its
\* session returned a token that says USER
C16_Witness ==
    \E r \in Reqs :
        /\ reqs[r].pc = "done"
        /\ reqs[r].result = "200"
        /\ \E pair \in reqs[r].tokens, old \in issued :
              /\ old.refresh_token = reqs[r].refresh_token
              /\ old.uid = pair.uid
              /\ old.access_token.role = "MODERATOR"
              /\ pair.access_token.role = "USER"
              /\ pair.uid \in Ids
              /\ users[pair.uid].role = "USER"

\* C17: a refresh that presents a registered refresh token whose principal
\* was deleted after the token was issued never mints a pair: once past the
\* forward lookup it ends with PrincipalNotFound and no tokens.
C17_OrphanedSessionNotFound ==
    \A r \in Reqs :
        (reqs[r].pc \notin {"idle", "get"} /\ reqs[r].orphan
         /\ "user_id" \in DOMAIN reqs[r]) =>
            /\ reqs[r].pc # "mint"
            /\ reqs[r].pc = "done" =>
                  /\ reqs[r].result = "UserNotFoundError"
                  /\ reqs[r].detail = "User not found"
                  /\ reqs[r].tokens = {}

\* the refresh of a deleted principal's session was refused
C17_Witness ==
    \E r \in Reqs :
        /\ reqs[r].pc = "done"
        /\ reqs[r].orphan
        /\ reqs[r].result = "UserNotFoundError"
        /\ reqs[r].tokens = {}
        /\ reqs[r].refresh_token \in {p.refresh_token : p \in issued}

TokenExpiredKind   == "Token has expired"
TokenMalformedKind == "Failed to decode token"
TokenInvalidKind   == "Invalid token"

\* C18: decode reports each cause of failure as its own kind: an expired
\* token as TokenExpired, an unparsable one as TokenMalformed, one whose
\* signature does not verify (wrong key or wrong algorithm) as TokenInvalid.
C18_DecodeFailureKinds ==
    last.op = "decode" =>
        /\ last.causes = {"expired"}   => last.result.detail = TokenExpiredKind
        /\ last.causes = {"malformed"} => last.result.detail = TokenMalformedKind
        /\ last.causes = {"key"}       => last.result.detail = TokenInvalidKind
        /\ last.causes = {"algorithm"} => last.result.detail = TokenInvalidKind

GroupNotFound == "400 group not found"

\* C20: a signup whose group_id is the id of no group creates no principal,
\* and, when its email and username are new, fails with GroupNotFound.
C20_SignupUnknownGroup ==
    (last.op = "signup" /\ last.req.group_id \in NoGroups) =>
        /\ last.created = {}
        /\ last.result # "201"
        /\ last.collide \cap {"email", "username"} = {} =>
              last.result = GroupNotFound

\* the rows S in ascending order of creation
ByCreationAscending(S) ==
    CHOOSE s \in [1 .. Cardinality(S) -> S] :
        \A i, j \in DOMAIN s : i < j => created_at(s[i]) < created_at(s[j])

\* C21: a listing (ascending) with no sort field, or with a sort field that
\* is no field of the principal record, succeeds and is ordered by creation
\* time; an unknown sort field is never an error.
C21_SortFallsBackToCreationTime ==
    (/\ last.op = "list_users"
     /\ users[last.actor].role \in {"ADMIN", "MODERATOR"}
     /\ last.query.order_by = "asc"
     /\ last.query.sort_by \notin SortLiterals)
    => /\ last.result = "200"
       /\ last.rows =
             Paginate(ByCreationAscending(
                          get_all_users_where(last.actor,
                                              last.query.filter_by_name)),
                      last.query.page, last.query.limit)

\* C22: no refresh token has both its forward mapping and its blacklist
\* marker in Redis, in any state, the states between the steps of a rotation
\* and of concurrent, crashed or failed requests included.
C22_ForwardAndBlacklistExclusive ==
    \A t \in 1 .. nextTok :
        redis_exists(BlacklistKey(t)) => ~redis_exists(RefreshKey(t))

\* a token is blacklisted while a second request that read its forward
\* mapping is still between its steps, and the successor's mapping is live
C22_Witness ==
    \E t \in 1 .. nextTok, r \in Reqs :
        /\ redis_exists(BlacklistKey(t))
        /\ reqs[r].pc \in {"delete", "setex"}
        /\ reqs[r].refresh_token = t
        /\ \E t2 \in 1 .. nextTok : t2 # t /\ redis_exists(RefreshKey(t2))

\* a refresh that presents a token after a rotation of it stopped half way
\* gets no tokens: it is refused as an invalid token (or Redis raised)
LaterRefreshRejected ==
    \A r \in Reqs :
        (reqs[r].pc # "idle" /\ reqs[r].stopped) =>
            /\ reqs[r].pc \in {"get", "done"}
            /\ reqs[r].pc = "done" =>
                  /\ reqs[r].tokens = {}
                  /\ reqs[r].result \in {InvalidTokenError, "RedisError"}

\* C23: when a rotation of token t stopped after the delete of the forward
\* mapping and before the setex of the blacklist marker, every refresh that
\* presents t afterwards is rejected without tokens, as an invalid token,
\* and no refresh of t ever returns a token pair.
C23_StoppedRotationLeavesTokenDead ==
    /\ LaterRefreshRejected
    /\ \A t \in Stopped :
          \A r \in Reqs :
              (reqs[r].pc = "done" /\ reqs[r].refresh_token = t)
                 => reqs[r].tokens = {}

\* the forward mapping of a pair is in Redis (primed state) as written by
\* _create_user_tokens: the principal's id, for JWT_EXPIRE_DAYS
Committed(pair) ==
    /\ RefreshKey(pair.refresh_token) \in DOMAIN redis'
    /\ redis'[RefreshKey(pair.refresh_token)] =
          [value |-> pair.uid, ttl |-> JWT_EXPIRE_DAYS * 86400]

\* C24: in the step in which login or refresh returns a token pair, Redis
\* holds refresh_token:<new token> with the principal's id and the
\* refresh-token lifetime as TTL; a login whose setex failed returns no
\* pair, and nor does a refresh whose registration failed.
C24_ReturnedPairIsCommitted ==
    [][nextTok' # nextTok =>
         /\ (last' # last /\ last'.op = "login") =>
               /\ \A pair \in last'.tokens :
                     pair.uid \in last'.principals /\ Committed(pair)
               /\ ~last'.redis_ok => last'.tokens = {}
         /\ \A r \in Reqs :
               (reqs'[r] # reqs[r] /\ reqs'[r].pc = "done") =>
                  /\ \A pair \in reqs'[r].tokens :
                        pair.uid = reqs[r].user_id /\ Committed(pair)
                  /\ redis' = redis => reqs'[r].tokens = {}]_vars

\* a login returned a pair, a refresh of it returned the next pair, and the
\* forward mapping of that pair is in Redis
C24_Witness ==
    /\ last.op = "login" /\ last.result = "200"
    /\ \E r \in Reqs :
          /\ reqs[r].pc = "done" /\ reqs[r].result = "200"
          /\ reqs[r].refresh_token \in {p.refresh_token : p \in last.tokens}
          /\ \A pair \in reqs[r].tokens :
                redis_get(RefreshKey(pair.refresh_token)) = pair.uid

\* the requests one of whose Redis calls raised, the registration of the
\* new token included
StoreFailed ==
    {r \in Reqs : \/ "at" \in DOMAIN reqs[r]
                  \/ reqs[r].pc = "done" /\ reqs[r].result = "500"}

\* C25: a refresh one of whose Redis calls (exists, get, delete, setex of
\* the marker, setex of the new token) raised has ended, with an error and
\* without a token pair, and no pair was minted for it.
C25_RefreshFailsClosed ==
    \A r \in StoreFailed :
        /\ reqs[r].pc = "done"
        /\ reqs[r].result \in {"RedisError", "500"}
        /\ reqs[r].tokens = {}
        /\ \A p \in issued : p.via = "refresh" =>
              \E q \in Reqs \ {r} : /\ reqs[q].pc = "done"
                                     /\ p \in reqs[q].tokens

\* the forward lookup of a live token raised in one request, and the
\* registration of the new token failed in another
C25_Witness ==
    \E r, q \in Reqs :
        /\ reqs[r].pc = "done" /\ reqs[r].result = "RedisError"
        /\ reqs[r].at = "get"
        /\ TokenOwner(reqs[r].refresh_token) # {}
        /\ reqs[q].pc = "done" /\ reqs[q].result = "500"

\* the bearer requests of the model
BearerOps == {"getme", "bearer_list"}

C27_BlockedCannotRefresh ==
    \A r \in Reqs :
        (reqs[r].pc = "done" /\ "fetched" \in DOMAIN reqs[r]
                             /\ reqs[r].fetched.is_blocked)
           => (reqs[r].result # "200" /\ reqs[r].tokens = {})

\* C28: a bearer request whose principal was blocked, or given another
\* role, after its access token was issued is decided by the stored record:
\* refused as blocked, respectively allowed or refused by the new role.
C28_DecidedFromStoredRecord ==
    last.op \in BearerOps =>
        \A rec \in last.principal :
            (/\ rec.username = last.token.access_token.sub
             /\ rec.is_blocked \/ rec.role # last.token.access_token.role)
            => last.result =
                 IF rec.is_blocked THEN "403 User is blocked"
                 ELSE IF /\ last.op = "bearer_list"
                         /\ rec.role \notin {"ADMIN", "MODERATOR"}
                 THEN "403 NotEnoughPermissionsError"
                 ELSE "200"

\* C29: a principal created by POST /auth/signup has role USER and is not
\* blocked, whatever role the payload names.
C29_SignupCreatesPlainUser ==
    (last.op = "signup" /\ last.result = "201") =>
        \A u \in last.created :
            users[u].role = "USER" /\ ~users[u].is_blocked

\* the fields an update request provided: the keys of a JSON body, the
\* filled-in fields of a form
Supplied ==
    IF last.op = "update_me"
    THEN {f \in DOMAIN last.update : last.update[f] # <<>>}
    ELSE DOMAIN last.update

\* C30: after PATCH /user/me (form) and PATCH /user/{id} (JSON) every field
\* of the target that the request did not provide, password and group
\* reference included, has the value it had before, no principal appears
\* or disappears, and no other principal's record is changed.
C30_UpdateChangesOnlySuppliedFields ==
    last.op \in {"update_me", "update_user"} =>
        /\ DOMAIN users = DOMAIN last.before
        /\ \A u \in Ids \ {last.target} : users[u] = last.before[u]
        /\ last.target \in Ids =>
              \A f \in DOMAIN users[last.target] \ Supplied :
                  users[last.target][f] = last.before[last.target][f]

====
